---- MODULE Spec2Model ----
(***************************************************************************)
(* The counter program (smart-contract/src): the instruction codec, the    *)
(* two derived addresses, the binary layout of Counter and Settings, and   *)
(* Processor::process with its three handlers, over the account buffers    *)
(* the host passes in.                                                     *)
(*                                                                         *)
(* Numbers are held as the little-endian byte strings borsh reads and      *)
(* writes (a u32 is 4 bytes, an i64 is 8 bytes, two's complement), and the *)
(* arithmetic of process_operation is done on that form with carries, so   *)
(* the full 64-bit width is kept.                                          *)
(***************************************************************************)
EXTENDS Integers, Sequences, FiniteSets, TLC

\* ------------------------------------------------------------------ bounds
\* Number of invocations of Processor::process in one behaviour.
MaxCalls == 2

\* Number of transactions the host schedules concurrently in one behaviour.
MaxTx == 3

\* Number of invocations in one behaviour of the history specification.
MaxHistory == 5

\* ------------------------------------------------------------------ bytes
Byte == 0..255

ZeroBytes(n) == [i \in 1..n |-> 0]

\* u32::to_le_bytes for a value below 2^31
U32(n) == << n % 256, (n \div 256) % 256, (n \div 65536) % 256, (n \div 16777216) % 256 >>

U32Max == << 255, 255, 255, 255 >>

\* i64::to_le_bytes for a value of small magnitude (|n| < 2^31)
I64(n) ==
    IF n >= 0 THEN U32(n) \o << 0, 0, 0, 0 >>
    ELSE [i \in 1..8 |-> 255 - (U32(-n - 1) \o << 0, 0, 0, 0 >>)[i]]

\* ------------------------------------------------------------------ keys
\* Pubkey::new(&[0_u8; 32]); also the address of the system program
ZeroPk == ZeroBytes(32)

\* 2wY7hT8TJhFpQqQJ5PGSed76vEgGNeQ11y1PvPsLUcS4
AdminPk == << 28, 212, 59, 165, 120, 246, 217, 222, 54, 146, 40, 15, 29, 116, 181, 170,
              127, 95, 104, 96, 111, 182, 220, 59, 176, 28, 79, 38, 63, 193, 241, 65 >>

\* 4UPHhQxnJrsmLE5w1qLencgCCttYiPswdaRRpQ9xwG5Z
UserPk == << 51, 150, 241, 144, 28, 224, 135, 201, 10, 75, 27, 215, 68, 89, 113, 249,
             184, 208, 47, 86, 72, 178, 246, 179, 184, 210, 197, 130, 176, 253, 15, 68 >>

\* Ffav6rApgVYVogddJrLsccYwveUZCS8KJoM5TLW8T6CH = sha256(UserPk ++ "counter" ++ id())
UserCounterPk == << 217, 230, 9, 63, 165, 200, 85, 79, 46, 172, 134, 127, 195, 233, 71, 15,
                    104, 146, 112, 62, 97, 181, 180, 9, 225, 231, 192, 21, 160, 215, 14, 162 >>

\* 8EPgNhKiuoQHbq9yfr34BhUuNXWYtP2kfCXiRENWNRe3 = sha256(AdminPk ++ "counter" ++ id())
AdminCounterPk == << 107, 112, 0, 135, 246, 78, 130, 108, 4, 208, 98, 144, 41, 105, 139, 121,
                     135, 203, 233, 28, 208, 195, 201, 247, 60, 54, 131, 224, 13, 228, 24, 60 >>

\* 5KCTQH1ZLtbm3C9AmatRBt4roj6yjoVErS2xMkLAN3nA
\*   = sha256("settings" ++ [255] ++ id() ++ "ProgramDerivedAddress"), off-curve
SettingsPda == << 64, 24, 39, 154, 91, 121, 145, 41, 144, 123, 48, 183, 232, 179, 82, 217,
                  172, 12, 253, 196, 41, 225, 93, 15, 59, 25, 33, 173, 50, 98, 5, 251 >>

SettingsBump == 255

\* SysvarRent111111111111111111111111111111111
RentId == << 6, 167, 213, 23, 25, 44, 92, 81, 33, 140, 201, 76, 61, 74, 241, 127,
             88, 218, 238, 8, 155, 161, 253, 68, 227, 219, 217, 138, 0, 0, 0, 0 >>

\* system_program::id() = 11111111111111111111111111111111
SystemProgramId == ZeroBytes(32)

\* id() = 7eWFSioVjHdJjbobEZu6hn5QLhmjWSv7qLMyCuzamYCG
ProgramId == << 98, 193, 174, 248, 7, 18, 77, 223, 241, 16, 201, 212, 181, 93, 22, 74,
                219, 168, 94, 3, 136, 190, 215, 43, 191, 124, 69, 80, 73, 205, 156, 249 >>

\* ------------------------------------------------------------------ errors
AdminRequired == 0
WrongCounterPDA == 1
WrongSettingsPDA == 2

Ok == [kind |-> "Ok", code |-> 0]

\* a ProgramError variant without payload
Err(name) == [kind |-> name, code |-> 0]

\* impl From<CounterError> for ProgramError: ProgramError::Custom(e as u32)
Custom(e) == [kind |-> "Custom", code |-> e]

\* ------------------------------------------------------------------ address deriver
\* Counter::generate_counter_pk: Pubkey::create_with_seed(user, "counter", id()),
\* a sha256 digest, tabulated for the addresses of the model.  The seed is 7
\* bytes and id() is fixed, so create_with_seed never returns Err.
generate_counter_pk(user) ==
    CASE user = UserPk  -> UserCounterPk
      [] user = AdminPk -> AdminCounterPk

check_counter_pk(user, transaction) == transaction = generate_counter_pk(user)

\* The candidates of the settings address: sha256("settings" ++ [bump] ++
\* id() ++ "ProgramDerivedAddress"), tabulated for the four highest bumps,
\* and whether the digest is a point of the ed25519 curve.
TabulatedBumps == 252..255

SettingsCandidate254 ==
    << 197, 88, 75, 162, 187, 99, 171, 199, 238, 152, 106, 214, 9, 223, 23, 123,
       162, 114, 155, 218, 130, 39, 187, 208, 153, 205, 196, 216, 66, 120, 186, 124 >>

SettingsCandidate253 ==
    << 215, 181, 79, 226, 235, 247, 58, 216, 69, 180, 222, 207, 244, 141, 62, 38,
       134, 87, 213, 214, 204, 151, 212, 228, 198, 65, 222, 53, 109, 77, 129, 23 >>

SettingsCandidate252 ==
    << 162, 103, 57, 189, 122, 184, 234, 54, 124, 180, 135, 107, 207, 157, 229, 113,
       34, 81, 57, 147, 163, 66, 242, 95, 239, 10, 150, 180, 42, 4, 197, 225 >>

settings_digest(bump) ==
    CASE bump = 255 -> SettingsPda
      [] bump = 254 -> SettingsCandidate254
      [] bump = 253 -> SettingsCandidate253
      [] bump = 252 -> SettingsCandidate252

is_on_curve(bump) == bump \in { 252, 253 }

\* Pubkey::create_program_address(&["settings", &[bump]], &id()): the digest,
\* or an error when the digest is a curve point
create_program_address(bump) ==
    IF is_on_curve(bump) THEN [ok |-> FALSE] ELSE [ok |-> TRUE, pk |-> settings_digest(bump)]

\* Pubkey::find_program_address: the bumps from 255 downwards, the first
\* candidate that is not a curve point
RECURSIVE try_find_program_address(_)
try_find_program_address(bump) ==
    IF bump \notin TabulatedBumps THEN [ok |-> FALSE]
    ELSE LET candidate == create_program_address(bump)
         IN  IF candidate.ok THEN [ok |-> TRUE, pk |-> candidate.pk, bump |-> bump]
             ELSE try_find_program_address(bump - 1)

\* Settings::get_settings_pk_with_bump
get_settings_pk_with_bump ==
    LET found == try_find_program_address(255) IN << found.pk, found.bump >>

\* mutant: every address passes for the settings address
check_settings_pk_any(settings) == TRUE

check_settings_pk(settings) == get_settings_pk_with_bump[1] = settings

\* Settings::create_signer_seed, the seed "settings" kept as a string
\* mutant: the bump left out of the signer seeds
create_signer_seed_without_bump(bump) == << "settings" >>

create_signer_seed(bump) == << "settings", bump >>

\* ------------------------------------------------------------------ instruction codec
Inc == [tag |-> "Inc"]
Dec == [tag |-> "Dec"]
Reset == [tag |-> "Reset"]
UpdSett(admin, inc_step, dec_step) ==
    [tag |-> "UpdSett", admin |-> admin, inc_step |-> inc_step, dec_step |-> dec_step]

\* BorshSerialize for CounterInstruction (try_to_vec): the variant index as
\* one byte, then the fields in declaration order.
instruction_try_to_vec(x) ==
    CASE x.tag = "Inc"     -> << 0 >>
      [] x.tag = "Dec"     -> << 1 >>
      [] x.tag = "Reset"   -> << 2 >>
      [] x.tag = "UpdSett" -> << 3 >> \o x.admin \o x.inc_step \o x.dec_step

\* BorshDeserialize for CounterInstruction through try_from_slice: the variant
\* index, the fields of the variant, and an error when input is missing or
\* bytes are left over.
\* mutant: the two steps read in the wrong order
instruction_try_from_slice_swapped(raw) ==
    IF Len(raw) = 0 THEN [ok |-> FALSE]
    ELSE IF raw[1] = 0 THEN (IF Len(raw) = 1 THEN [ok |-> TRUE, inst |-> Inc] ELSE [ok |-> FALSE])
    ELSE IF raw[1] = 1 THEN (IF Len(raw) = 1 THEN [ok |-> TRUE, inst |-> Dec] ELSE [ok |-> FALSE])
    ELSE IF raw[1] = 2 THEN (IF Len(raw) = 1 THEN [ok |-> TRUE, inst |-> Reset] ELSE [ok |-> FALSE])
    ELSE IF raw[1] = 3 THEN
        (IF Len(raw) = 41
         THEN [ok |-> TRUE,
               inst |-> UpdSett(SubSeq(raw, 2, 33), SubSeq(raw, 38, 41), SubSeq(raw, 34, 37))]
         ELSE [ok |-> FALSE])
    ELSE [ok |-> FALSE]

\* mutant: deserialize instead of try_from_slice, bytes left over are ignored
instruction_try_from_slice_prefix(raw) ==
    IF Len(raw) = 0 THEN [ok |-> FALSE]
    ELSE IF raw[1] = 0 THEN [ok |-> TRUE, inst |-> Inc]
    ELSE IF raw[1] = 1 THEN [ok |-> TRUE, inst |-> Dec]
    ELSE IF raw[1] = 2 THEN [ok |-> TRUE, inst |-> Reset]
    ELSE IF raw[1] = 3 THEN
        (IF Len(raw) >= 41
         THEN [ok |-> TRUE,
               inst |-> UpdSett(SubSeq(raw, 2, 33), SubSeq(raw, 34, 37), SubSeq(raw, 38, 41))]
         ELSE [ok |-> FALSE])
    ELSE [ok |-> FALSE]

\* mutant: missing payload bytes read as zero instead of failing
instruction_try_from_slice_padded(raw) ==
    IF Len(raw) = 0 THEN [ok |-> FALSE]
    ELSE IF raw[1] = 0 THEN (IF Len(raw) = 1 THEN [ok |-> TRUE, inst |-> Inc] ELSE [ok |-> FALSE])
    ELSE IF raw[1] = 1 THEN (IF Len(raw) = 1 THEN [ok |-> TRUE, inst |-> Dec] ELSE [ok |-> FALSE])
    ELSE IF raw[1] = 2 THEN (IF Len(raw) = 1 THEN [ok |-> TRUE, inst |-> Reset] ELSE [ok |-> FALSE])
    ELSE IF raw[1] = 3 THEN
        (IF Len(raw) <= 41
         THEN LET padded == raw \o ZeroBytes(41 - Len(raw))
              IN  [ok |-> TRUE,
                   inst |-> UpdSett(SubSeq(padded, 2, 33), SubSeq(padded, 34, 37),
                                    SubSeq(padded, 38, 41))]
         ELSE [ok |-> FALSE])
    ELSE [ok |-> FALSE]

instruction_try_from_slice(raw) ==
    IF Len(raw) = 0 THEN [ok |-> FALSE]
    ELSE IF raw[1] = 0 THEN (IF Len(raw) = 1 THEN [ok |-> TRUE, inst |-> Inc] ELSE [ok |-> FALSE])
    ELSE IF raw[1] = 1 THEN (IF Len(raw) = 1 THEN [ok |-> TRUE, inst |-> Dec] ELSE [ok |-> FALSE])
    ELSE IF raw[1] = 2 THEN (IF Len(raw) = 1 THEN [ok |-> TRUE, inst |-> Reset] ELSE [ok |-> FALSE])
    ELSE IF raw[1] = 3 THEN
        (IF Len(raw) = 41
         THEN [ok |-> TRUE,
               inst |-> UpdSett(SubSeq(raw, 2, 33), SubSeq(raw, 34, 37), SubSeq(raw, 38, 41))]
         ELSE [ok |-> FALSE])
    ELSE [ok |-> FALSE]

\* ------------------------------------------------------------------ state layout
\* Counter { value: i64 }
counter_try_to_vec(counter) == counter.value

\* mutant: deserialize instead of try_from_slice, bytes left over are ignored
counter_try_from_slice_prefix(buf) ==
    IF Len(buf) >= 8 THEN [ok |-> TRUE, counter |-> [value |-> SubSeq(buf, 1, 8)]]
    ELSE [ok |-> FALSE]

counter_try_from_slice(buf) ==
    IF Len(buf) = 8 THEN [ok |-> TRUE, counter |-> [value |-> buf]] ELSE [ok |-> FALSE]

\* Settings { admin: Pubkey, inc_step: u32, dec_step: u32 }
\* mutant: dec_step left out of the serialized settings
settings_try_to_vec_without_dec(settings) == settings.admin \o settings.inc_step

\* mutant: the two steps written in the wrong order
settings_try_to_vec_swapped(settings) == settings.admin \o settings.dec_step \o settings.inc_step

settings_try_to_vec(settings) == settings.admin \o settings.inc_step \o settings.dec_step

\* mutant: an empty buffer read as Settings::default()
settings_try_from_slice_default(buf) ==
    IF Len(buf) = 40
    THEN [ok |-> TRUE,
          settings |-> [admin    |-> SubSeq(buf, 1, 32),
                        inc_step |-> SubSeq(buf, 33, 36),
                        dec_step |-> SubSeq(buf, 37, 40)]]
    ELSE IF Len(buf) = 0
    THEN [ok |-> TRUE,
          settings |-> [admin |-> ZeroBytes(32), inc_step |-> ZeroBytes(4),
                        dec_step |-> ZeroBytes(4)]]
    ELSE [ok |-> FALSE]

settings_try_from_slice(buf) ==
    IF Len(buf) = 40
    THEN [ok |-> TRUE,
          settings |-> [admin    |-> SubSeq(buf, 1, 32),
                        inc_step |-> SubSeq(buf, 33, 36),
                        dec_step |-> SubSeq(buf, 37, 40)]]
    ELSE [ok |-> FALSE]

\* x.serialize(&mut &mut data.borrow_mut()[..]): the bytes are written over
\* the front of the buffer.  Into a buffer too short for them the write is
\* partial: the bytes that fit are written, then it fails with an io error.
\* mutant: the bytes go to a copy, the account buffer keeps its contents
serialize_into_discarded(buf, bytes) == [ok |-> TRUE, buf |-> buf]

serialize_into(buf, bytes) ==
    IF Len(buf) < Len(bytes) THEN [ok |-> FALSE, buf |-> SubSeq(bytes, 1, Len(buf))]
    ELSE [ok |-> TRUE, buf |-> bytes \o SubSeq(buf, Len(bytes) + 1, Len(buf))]

\* ------------------------------------------------------------------ 64-bit arithmetic
RECURSIVE AddFrom(_, _, _, _)
AddFrom(a, b, i, carry) ==
    IF i > Len(a) THEN << >>
    ELSE LET s == a[i] + b[i] + carry
         IN  << s % 256 >> \o AddFrom(a, b, i + 1, s \div 256)

IsNegative(a) == a[8] >= 128

wrapping_add(a, b) == AddFrom(a, b, 1, 0)

wrapping_sub(a, b) == AddFrom(a, [i \in 1..8 |-> 255 - b[i]], 1, 1)

add_overflows(a, b) ==
    IsNegative(a) = IsNegative(b) /\ IsNegative(wrapping_add(a, b)) # IsNegative(a)

sub_overflows(a, b) ==
    IsNegative(a) # IsNegative(b) /\ IsNegative(wrapping_sub(a, b)) # IsNegative(a)

\* `step as i64` for a u32: zero extension
u32_as_i64(step) == step \o << 0, 0, 0, 0 >>

\* `value -= x` on i64, with the same two outcomes on overflow as add_assign
\* mutant: `+=` written for `-=`
sub_assign_adds(value, x) ==
    IF add_overflows(value, x)
    THEN { [panic |-> TRUE, value |-> value], [panic |-> FALSE, value |-> wrapping_add(value, x)] }
    ELSE { [panic |-> FALSE, value |-> wrapping_add(value, x)] }

sub_assign(value, x) ==
    IF sub_overflows(value, x)
    THEN { [panic |-> TRUE, value |-> value], [panic |-> FALSE, value |-> wrapping_sub(value, x)] }
    ELSE { [panic |-> FALSE, value |-> wrapping_sub(value, x)] }

\* mutant: `-=` written for `+=`
add_assign_subtracts(value, x) == sub_assign(value, x)

\* `value += x` on i64.  On overflow the build decides: with overflow checks
\* the program panics, without them the sum wraps.
add_assign(value, x) ==
    IF add_overflows(value, x)
    THEN { [panic |-> TRUE, value |-> value], [panic |-> FALSE, value |-> wrapping_add(value, x)] }
    ELSE { [panic |-> FALSE, value |-> wrapping_add(value, x)] }

\* ------------------------------------------------------------------ accounts
\* The accounts whose buffers the program owns.  Every other account of the
\* model (a wallet) has an empty buffer.
ProgramAccounts == { UserCounterPk, AdminCounterPk, SettingsPda }

\* account.data.borrow()
DataOf(d, key) == IF key \in DOMAIN d THEN d[key] ELSE << >>

Outcome(res, d, create) == [res |-> res, data |-> d, create |-> create]

NoCreate == [issued |-> FALSE, granted |-> FALSE]

\* ------------------------------------------------------------------ processor
\* Rent::minimum_balance with the rent parameters of the cluster
\* (128 bytes of overhead, 3480 lamports per byte-year, 2 years).
minimum_balance(space) == (128 + space) * 3480 * 2

\* Processor::create_settings_account.  The request goes to the host through
\* invoke_signed; the host refuses it when the settings account was not
\* passed writable or the system program is not the account in the last
\* slot, and may refuse it otherwise (the funder's balance, an address that
\* already holds lamports).  A created account has `space` zero bytes.
create_settings_account(d, admin_acc, settings_acc, sys_acc, rent_acc, inc_step, dec_step) ==
    LET settings == [admin |-> admin_acc.key, inc_step |-> inc_step, dec_step |-> dec_step]
        space    == Len(settings_try_to_vec(settings))
        pkbump   == get_settings_pk_with_bump
        request  == [issued   |-> TRUE,
                     granted  |-> FALSE,
                     from     |-> admin_acc.key,
                     to       |-> pkbump[1],
                     lamports |-> minimum_balance(space),
                     space    |-> space,
                     owner    |-> ProgramId,
                     seeds    |-> create_signer_seed(pkbump[2])]
        refused  == Outcome(Err("InvokeFailed"), d, request)
        granted  == Outcome(Ok, [d EXCEPT ![pkbump[1]] = ZeroBytes(space)],
                            [request EXCEPT !.granted = TRUE])
    IN  IF rent_acc.key # RentId THEN { Outcome(Err("InvalidArgument"), d, NoCreate) }
        ELSE IF settings_acc.is_writable /\ sys_acc.key = SystemProgramId
             THEN { granted, refused }
             ELSE { refused }

\* `!acc.is_signer`, the first check of the three handlers
\* mutant: the signer check left out
missing_signature_skipped(acc) == FALSE

missing_signature(acc) == ~acc.is_signer

\* The counter check of process_operation and process_reset:
\* `!counter_acc.is_writable && !Counter::check_counter_pk(user_acc.key, counter_acc.key)`
wrong_counter(user_acc, counter_acc) ==
    ~counter_acc.is_writable /\ ~check_counter_pk(user_acc.key, counter_acc.key)

\* `!admin_acc.is_writable` in process_upd_sett
\* mutant: the writable check left out
admin_readonly_skipped(admin_acc) == FALSE

admin_readonly(admin_acc) == ~admin_acc.is_writable

\* The admin check of process_upd_sett:
\* `settings.admin != *admin_acc.key && settings.admin != Pubkey::new(&[0_u8; 32])`
\* mutant: the admin check left out
admin_rejected_skipped(settings, admin_acc) == FALSE

\* mutant: `==` written for the second `!=`
admin_rejected_inverted(settings, admin_acc) ==
    settings.admin # admin_acc.key /\ settings.admin = ZeroPk

\* mutant: the unclaimed sentinel forgotten
admin_rejected_no_sentinel(settings, admin_acc) == settings.admin # admin_acc.key

admin_rejected(settings, admin_acc) ==
    settings.admin # admin_acc.key /\ settings.admin # ZeroPk

\* Processor::process_operation
process_operation(d, accounts, inst) ==
    IF Len(accounts) < 3 THEN { Outcome(Err("NotEnoughAccountKeys"), d, NoCreate) }
    ELSE
    LET user_acc     == accounts[1]
        counter_acc  == accounts[2]
        settings_acc == accounts[3]
    IN  IF missing_signature(user_acc)
        THEN { Outcome(Err("MissingRequiredSignature"), d, NoCreate) }
        ELSE IF wrong_counter(user_acc, counter_acc)
        THEN { Outcome(Custom(WrongCounterPDA), d, NoCreate) }
        ELSE IF ~check_settings_pk(settings_acc.key)
        THEN { Outcome(Custom(WrongCounterPDA), d, NoCreate) }
        ELSE
        LET s == settings_try_from_slice(DataOf(d, settings_acc.key))
            c == counter_try_from_slice(DataOf(d, counter_acc.key))
        IN  IF ~s.ok THEN { Outcome(Err("BorshIoError"), d, NoCreate) }
            ELSE IF ~c.ok THEN { Outcome(Err("BorshIoError"), d, NoCreate) }
            ELSE IF inst.tag \notin { "Inc", "Dec" } THEN { Outcome(Err("Panic"), d, NoCreate) }
            ELSE
            LET results == IF inst.tag = "Inc"
                           THEN add_assign(c.counter.value, u32_as_i64(s.settings.inc_step))
                           ELSE sub_assign(c.counter.value, u32_as_i64(s.settings.dec_step))
                Store(r) ==
                    LET w == serialize_into(DataOf(d, counter_acc.key),
                                            counter_try_to_vec([value |-> r.value]))
                    IN  IF r.panic THEN Outcome(Err("Panic"), d, NoCreate)
                        ELSE IF ~w.ok
                        THEN Outcome(Err("BorshIoError"),
                                     [d EXCEPT ![counter_acc.key] = w.buf], NoCreate)
                        ELSE Outcome(Ok, [d EXCEPT ![counter_acc.key] = w.buf], NoCreate)
            IN  { Store(r) : r \in results }

\* Processor::process_reset
process_reset(d, accounts) ==
    IF Len(accounts) < 2 THEN { Outcome(Err("NotEnoughAccountKeys"), d, NoCreate) }
    ELSE
    LET user_acc    == accounts[1]
        counter_acc == accounts[2]
    IN  IF missing_signature(user_acc)
        THEN { Outcome(Err("MissingRequiredSignature"), d, NoCreate) }
        ELSE IF wrong_counter(user_acc, counter_acc)
        THEN { Outcome(Custom(WrongCounterPDA), d, NoCreate) }
        ELSE
        LET c == counter_try_from_slice(DataOf(d, counter_acc.key))
        IN  IF ~c.ok THEN { Outcome(Err("BorshIoError"), d, NoCreate) }
            ELSE
            LET w == serialize_into(DataOf(d, counter_acc.key),
                                    counter_try_to_vec([value |-> I64(0)]))
            IN  IF ~w.ok
                THEN { Outcome(Err("BorshIoError"),
                               [d EXCEPT ![counter_acc.key] = w.buf], NoCreate) }
                ELSE { Outcome(Ok, [d EXCEPT ![counter_acc.key] = w.buf], NoCreate) }

\* Processor::process_upd_sett
process_upd_sett(d, accounts, admin, inc_step, dec_step) ==
    IF Len(accounts) < 4 THEN { Outcome(Err("NotEnoughAccountKeys"), d, NoCreate) }
    ELSE
    LET admin_acc    == accounts[1]
        settings_acc == accounts[2]
        rent_acc     == accounts[3]
        sys_acc      == accounts[4]
    IN  IF missing_signature(admin_acc)
        THEN { Outcome(Err("MissingRequiredSignature"), d, NoCreate) }
        ELSE IF admin_readonly(admin_acc)
        THEN { Outcome(Custom(AdminRequired), d, NoCreate) }
        ELSE IF ~check_settings_pk(settings_acc.key)
        THEN { Outcome(Err("InvalidArgument"), d, NoCreate) }
        ELSE
        LET ensured == IF DataOf(d, settings_acc.key) = << >>
                       THEN create_settings_account(d, admin_acc, settings_acc, sys_acc,
                                                    rent_acc, inc_step, dec_step)
                       ELSE { Outcome(Ok, d, NoCreate) }
            Update(e) ==
                LET s == settings_try_from_slice(DataOf(e.data, settings_acc.key))
                    settings == [admin |-> admin, inc_step |-> inc_step, dec_step |-> dec_step]
                    w == serialize_into(DataOf(e.data, settings_acc.key),
                                        settings_try_to_vec(settings))
                IN  IF e.res # Ok THEN e
                    ELSE IF ~s.ok THEN Outcome(Err("BorshIoError"), e.data, e.create)
                    ELSE IF admin_rejected(s.settings, admin_acc)
                    THEN Outcome(Custom(AdminRequired), e.data, e.create)
                    ELSE IF ~w.ok
                    THEN Outcome(Err("BorshIoError"),
                                 [e.data EXCEPT ![settings_acc.key] = w.buf], e.create)
                    ELSE Outcome(Ok, [e.data EXCEPT ![settings_acc.key] = w.buf], e.create)
        IN  { Update(e) : e \in ensured }

\* Processor::process
process(d, accounts, raw_data) ==
    LET decoded == instruction_try_from_slice(raw_data)
    IN  IF ~decoded.ok THEN { Outcome(Err("BorshIoError"), d, NoCreate) }
        ELSE LET instruction == decoded.inst
             IN  CASE instruction.tag \in { "Inc", "Dec" } ->
                        process_operation(d, accounts, instruction)
                   [] instruction.tag = "Reset" ->
                        process_reset(d, accounts)
                   [] instruction.tag = "UpdSett" ->
                        process_upd_sett(d, accounts, instruction.admin,
                                         instruction.inc_step, instruction.dec_step)

\* ------------------------------------------------------------------ instruction builders
\* AccountMeta::new(pubkey, is_signer) and AccountMeta::new_readonly; the host
\* hands the processor an account with these flags once the accounts marked
\* as signers have signed the transaction.
AccountMeta_new(pubkey, is_signer) ==
    [key |-> pubkey, is_signer |-> is_signer, is_writable |-> TRUE]

AccountMeta_new_readonly(pubkey, is_signer) ==
    [key |-> pubkey, is_signer |-> is_signer, is_writable |-> FALSE]

\* Instruction::new_with_borsh(program_id, &data, accounts)
Instruction_new_with_borsh(program_id, x, accounts) ==
    [program_id |-> program_id, accounts |-> accounts, data |-> instruction_try_to_vec(x)]

\* mutant: the counter account built read-only
operation_instr_counter_readonly(user, instr) ==
    LET counter_pk  == generate_counter_pk(user)
        settings_pk == get_settings_pk_with_bump[1]
    IN  Instruction_new_with_borsh(ProgramId, instr,
            << AccountMeta_new_readonly(user, TRUE),
               AccountMeta_new_readonly(counter_pk, FALSE),
               AccountMeta_new_readonly(settings_pk, FALSE) >>)

operation_instr(user, instr) ==
    LET counter_pk  == generate_counter_pk(user)
        settings_pk == get_settings_pk_with_bump[1]
    IN  Instruction_new_with_borsh(ProgramId, instr,
            << AccountMeta_new_readonly(user, TRUE),
               AccountMeta_new(counter_pk, FALSE),
               AccountMeta_new_readonly(settings_pk, FALSE) >>)

inc_instr(user) == operation_instr(user, Inc)

dec_instr(user) == operation_instr(user, Dec)

reset_instr(user) ==
    LET counter_pk == generate_counter_pk(user)
    IN  Instruction_new_with_borsh(ProgramId, Reset,
            << AccountMeta_new_readonly(user, TRUE),
               AccountMeta_new(counter_pk, FALSE) >>)

\* mutant: the admin slot built read-only
upd_sett_instr_readonly_admin(current_admin, new_admin, inc_step, dec_step) ==
    LET settings_pk == get_settings_pk_with_bump[1]
    IN  Instruction_new_with_borsh(ProgramId, UpdSett(new_admin, inc_step, dec_step),
            << AccountMeta_new_readonly(current_admin, TRUE),
               AccountMeta_new(settings_pk, FALSE),
               AccountMeta_new_readonly(RentId, FALSE),
               AccountMeta_new_readonly(SystemProgramId, FALSE) >>)

upd_sett_instr(current_admin, new_admin, inc_step, dec_step) ==
    LET settings_pk == get_settings_pk_with_bump[1]
    IN  Instruction_new_with_borsh(ProgramId, UpdSett(new_admin, inc_step, dec_step),
            << AccountMeta_new(current_admin, TRUE),
               AccountMeta_new(settings_pk, FALSE),
               AccountMeta_new_readonly(RentId, FALSE),
               AccountMeta_new_readonly(SystemProgramId, FALSE) >>)

\* ------------------------------------------------------------------ inputs
\* The callers of the model: two key holders, each with a counter account.
Callers == { UserPk, AdminPk }

\* Payloads of UpdSett: the new admin and the two steps.  9 and 5 are the
\* steps of tests/integration.rs; the zero address is the unclaimed sentinel.
UpdSettPayloads ==
    { << AdminPk, U32(9), U32(5) >>, << AdminPk, U32(1), U32(2) >>,
      << UserPk, U32(1), U32(2) >>, << ZeroPk, U32(1), U32(2) >> }

AccountInfo(keys, signer, writable) ==
    [key : keys, is_signer : signer, is_writable : writable]

\* Slot 0 of Inc, Dec and Reset: either caller, signing or not.
UserSlot == AccountInfo(Callers, BOOLEAN, {FALSE})

\* Slot 1 of Inc, Dec and Reset: a counter account or the settings account,
\* writable or not.
CounterSlot == AccountInfo(ProgramAccounts, {FALSE}, BOOLEAN)

\* Slot 2 of Inc and Dec: the settings account or another account.
SettingsSlot == AccountInfo({ SettingsPda, RentId }, {FALSE}, {FALSE})

\* Slot 0 of UpdSett: either caller, with every combination of flags.
AdminSlot == AccountInfo(Callers, BOOLEAN, BOOLEAN)

\* Slot 1 of UpdSett: the settings account, writable or not, or a counter.
UpdSettingsSlot ==
    AccountInfo({ SettingsPda }, {FALSE}, BOOLEAN) \cup AccountInfo({ UserCounterPk }, {FALSE}, {TRUE})

Readonly(key) == [key |-> key, is_signer |-> FALSE, is_writable |-> FALSE]

\* Lists too short for any handler.
ShortLists == { << >> } \cup { << a >> : a \in UserSlot }

ResetLists ==
    ShortLists
    \cup { << a, b >> : a \in UserSlot, b \in CounterSlot }
    \cup { << a, b, c >> : a \in UserSlot, b \in CounterSlot, c \in SettingsSlot }

OperationLists ==
    ShortLists
    \cup { << a, b >> : a \in UserSlot, b \in { c \in CounterSlot : c.is_writable } }
    \cup { << a, b, c >> : a \in UserSlot, b \in CounterSlot, c \in SettingsSlot }

\* The list upd_sett_instr builds for a caller, with the settings account
\* writable or not.
BuiltUpdSettLists ==
    { << [key |-> k, is_signer |-> TRUE, is_writable |-> TRUE], b,
         Readonly(RentId), Readonly(SystemProgramId) >> :
      k \in Callers, b \in AccountInfo({ SettingsPda }, {FALSE}, BOOLEAN) }

\* Every combination of admin flags and settings slot, the built list with a
\* wrong account in the rent or the system-program slot, and lists that stop
\* before the fourth slot.
UpdSettLists ==
    ShortLists
    \cup { SubSeq(l, 1, 3) : l \in BuiltUpdSettLists }
    \cup { << a, b, Readonly(RentId), Readonly(SystemProgramId) >> :
             a \in AdminSlot, b \in UpdSettingsSlot }
    \cup { [l EXCEPT ![3] = Readonly(SettingsPda)] : l \in BuiltUpdSettLists }
    \cup { [l EXCEPT ![4] = Readonly(RentId)] : l \in BuiltUpdSettLists }

\* The list operation_instr builds for the user.
BuiltOperationLists ==
    { << [key |-> UserPk, is_signer |-> TRUE, is_writable |-> FALSE],
         [key |-> UserCounterPk, is_signer |-> FALSE, is_writable |-> TRUE],
         Readonly(SettingsPda) >> }

UndecodableLists == { << >> } \cup BuiltUpdSettLists \cup BuiltOperationLists

OperationInstructions == { Inc, Dec }

ResetInstructions == { Reset }

UpdSettInstructions == { UpdSett(p[1], p[2], p[3]) : p \in UpdSettPayloads }

\* Instruction bytes the decoder refuses: empty, unknown variants, a byte
\* after each variant without fields, an UpdSett without payload, one byte
\* short and one byte too long.
UndecodableData ==
    { << >>, << 4 >>, << 255 >>, << 0, 0 >>, << 1, 7 >>, << 2, 0 >>, << 3 >>,
      << 3 >> \o AdminPk \o U32(9) \o << 5, 0, 0 >>,
      << 3 >> \o AdminPk \o U32(9) \o U32(5) \o << 0 >> }

\* the caller passed bytes that no encoder produced
NoInst == [tag |-> "None"]

\* ------------------------------------------------------------------ state
VARIABLES
    data,     \* the buffer of each program-owned account
    last,     \* the latest invocation: its inputs, its result, the buffers before it
    calls,    \* number of invocations so far
    created,  \* number of times the host has created the settings account
    inflight, \* the transactions the host runs concurrently, each with its stage
    ledger    \* the steps in force and the value each counter should hold,
              \* kept from the instructions sent and their results

vars == << data, last, calls, created, inflight, ledger >>

\* Settings as the first UpdSett of tests/integration.rs (Env::new) leaves them.
EnvSettings == settings_try_to_vec([admin |-> AdminPk, inc_step |-> U32(9), dec_step |-> U32(5)])

\* Counter values next to the two ends of i64: i64::MAX - 3 and i64::MIN + 3.
\* Steps are arbitrary u32 values under the admin's control, so every i64
\* value can be reached from 0 by enough Inc or Dec calls.
NearMax == << 252, 255, 255, 255, 255, 255, 255, 127 >>

NearMin == << 3, 0, 0, 0, 0, 0, 0, 128 >>

\* The user's counter account is created by the user with Counter { value: 0 }
\* (Env::new, App::create_counter_account); nothing creates a counter account
\* for the admin, whose counter address holds no data.  The settings account
\* either does not exist yet, or holds what the UpdSett of Env::new has
\* stored; in the latter case the user's counter may have been driven to
\* either end of its range.
InitialStates ==
    { << << >>, I64(0) >>, << EnvSettings, I64(0) >>,
      << EnvSettings, NearMax >>, << EnvSettings, NearMin >> }

\* no invocation yet
NoCall ==
    [inst |-> NoInst, raw |-> << >>, accounts |-> << >>, res |-> Err("None"),
     pre |-> [k \in ProgramAccounts |-> << >>], create |-> NoCreate]

Transactions == 1..MaxTx

\* a transaction slot before the host has scheduled anything in it
Idle == [stage |-> "idle", ix |-> << >>, loaded |-> << >>]

\* A u32 step as its low and its high 16 bits.  The ledger adds the halves
\* separately, so sums of several steps of up to 2^32 - 1 stay within the
\* integers of the checker.
Halves(u) == << u[1] + 256 * u[2], u[3] + 256 * u[4] >>

\* the ledger before anything was sent: no steps, every counter at zero
NoLedger ==
    [steps |-> << << 0, 0 >>, << 0, 0 >> >>,
     value |-> [k \in ProgramAccounts \ { SettingsPda } |-> << 0, 0 >>]]

Init ==
    /\ inflight = [t \in Transactions |-> Idle]
    /\ ledger = NoLedger
    /\ \E i \in InitialStates :
          data = [k \in ProgramAccounts |->
                    CASE k = SettingsPda    -> i[1]
                      [] k = UserCounterPk  -> i[2]
                      [] k = AdminCounterPk -> << >>]
    /\ last = NoCall
    /\ calls = 0
    /\ created = IF data[SettingsPda] = << >> THEN 0 ELSE 1

\* One invocation of the entrypoint with the given accounts and bytes; inst
\* is the instruction the caller encoded, if the bytes come from the encoder.
Run(accounts, raw_data, inst) ==
    \E o \in process(data, accounts, raw_data) :
        /\ data' = o.data
        /\ last' = [inst |-> inst, raw |-> raw_data, accounts |-> accounts, res |-> o.res,
                    pre |-> data, create |-> o.create]
        /\ calls' = calls + 1
        /\ created' = IF o.create.granted THEN created + 1 ELSE created

Invoke(accounts, raw_data, inst) ==
    /\ Run(accounts, raw_data, inst)
    /\ UNCHANGED << inflight, ledger >>

ProcessOperation ==
    /\ calls < MaxCalls
    /\ \E accounts \in OperationLists, x \in OperationInstructions :
          Invoke(accounts, instruction_try_to_vec(x), x)

ProcessReset ==
    /\ calls < MaxCalls
    /\ \E accounts \in ResetLists, x \in ResetInstructions :
          Invoke(accounts, instruction_try_to_vec(x), x)

ProcessUpdSett ==
    /\ calls < MaxCalls
    /\ \E accounts \in UpdSettLists, x \in UpdSettInstructions :
          Invoke(accounts, instruction_try_to_vec(x), x)

ProcessUndecodable ==
    /\ calls < MaxCalls
    /\ \E accounts \in UndecodableLists, raw \in UndecodableData : Invoke(accounts, raw, NoInst)

Next == ProcessOperation \/ ProcessReset \/ ProcessUpdSett \/ ProcessUndecodable

Spec == Init /\ [][Next]_vars

\* ------------------------------------------------------------------ clients of the builders
\* Every invocation is an instruction assembled by one of the four builders
\* and signed by the account the builder marks as signer.  The payloads of
\* UpdSett cover the all-zero and the all-0xFF admin and the steps 0, the
\* values of the unit tests (2 and 10), a value with four different bytes,
\* and 2^32 - 1.
FFPk == [i \in 1..32 |-> 255]

BuilderAdmins == { ZeroPk, FFPk, AdminPk, UserPk }

BuilderIncSteps == { U32(0), U32(2), U32(16909060), U32Max }

BuilderDecSteps == { U32(0), U32(10), U32Max }

Submit(ix, x) == Invoke(ix.accounts, ix.data, x)

SubmitInc ==
    /\ calls < MaxCalls
    /\ \E user \in Callers : Submit(inc_instr(user), Inc)

SubmitDec ==
    /\ calls < MaxCalls
    /\ \E user \in Callers : Submit(dec_instr(user), Dec)

SubmitReset ==
    /\ calls < MaxCalls
    /\ \E user \in Callers : Submit(reset_instr(user), Reset)

SubmitUpdSett ==
    /\ calls < MaxCalls
    /\ \E current_admin \in Callers, new_admin \in BuilderAdmins,
          inc_step \in BuilderIncSteps, dec_step \in BuilderDecSteps :
          Submit(upd_sett_instr(current_admin, new_admin, inc_step, dec_step),
                 UpdSett(new_admin, inc_step, dec_step))

NextBuilt == SubmitInc \/ SubmitDec \/ SubmitReset \/ SubmitUpdSett

BuilderSpec == Init /\ [][NextBuilt]_vars

\* ------------------------------------------------------------------ buffers of any width
\* The processor is handed whatever buffers the accounts hold.  A counter
\* account is created by its user, who chooses its size; the settings
\* account may have been written with another layout.  BinaryCounter and
\* BinarySettings are the byte vectors of the unit tests of state.rs.
BinaryCounter == << 247, 252, 255, 255, 255, 255, 255, 255 >>

BinarySettings == [i \in 1..32 |-> 3] \o << 1, 0, 0, 0, 10, 0, 0, 0 >>

\* settings buffer, the user's counter buffer, the admin's counter buffer
LayoutStates ==
    { << EnvSettings, ZeroBytes(9), << >> >>,
      << EnvSettings, ZeroBytes(7), << >> >>,
      << EnvSettings \o << 0 >>, I64(0), << >> >>,
      << SubSeq(EnvSettings, 1, 39), I64(0), << >> >>,
      << BinarySettings, BinaryCounter, << >> >> }

LayoutInit ==
    /\ inflight = [t \in Transactions |-> Idle]
    /\ ledger = NoLedger
    /\ \E i \in LayoutStates :
          data = [k \in ProgramAccounts |->
                    CASE k = SettingsPda    -> i[1]
                      [] k = UserCounterPk  -> i[2]
                      [] k = AdminCounterPk -> i[3]]
    /\ last = NoCall
    /\ calls = 0
    /\ created = 1

LayoutSpec == LayoutInit /\ [][Next]_vars

\* ------------------------------------------------------------------ concurrent invocations
\* The host runs up to MaxTx transactions at once, each one Inc or Dec built
\* by inc_instr / dec_instr and signed by its user.  A transaction is
\* scheduled only while no transaction in progress holds an account that
\* either of the two marks writable.  The program then loads the buffers
\* (processor.rs:58-59) and later stores the result (processor.rs:67); the
\* host keeps the result only when the program returned Ok and wrote to no
\* account that the transaction marks read-only.
ConcurrentInit ==
    /\ data = [k \in ProgramAccounts |->
                 CASE k = SettingsPda    -> EnvSettings
                   [] k = UserCounterPk  -> I64(0)
                   [] k = AdminCounterPk -> << >>]
    /\ last = NoCall
    /\ calls = 0
    /\ created = 1
    /\ inflight = [t \in Transactions |-> Idle]
    /\ ledger = NoLedger

InProgress(t) == inflight[t].stage \in { "scheduled", "loaded" }

Conflict(ix, other) ==
    \E i \in DOMAIN ix.accounts, j \in DOMAIN other.accounts :
        /\ ix.accounts[i].key = other.accounts[j].key
        /\ ix.accounts[i].is_writable \/ other.accounts[j].is_writable

Schedule(t) ==
    /\ inflight[t].stage = "idle"
    /\ \E user \in Callers :
          \E ix \in { inc_instr(user), dec_instr(user) } :
              /\ \A u \in Transactions : InProgress(u) => ~Conflict(ix, inflight[u].ix)
              /\ inflight' = [inflight EXCEPT ![t] =
                                [stage |-> "scheduled", ix |-> ix, loaded |-> << >>]]
    /\ UNCHANGED << data, last, calls, created, ledger >>

Load(t) ==
    /\ inflight[t].stage = "scheduled"
    /\ inflight' = [inflight EXCEPT ![t].stage = "loaded", ![t].loaded = data]
    /\ UNCHANGED << data, last, calls, created, ledger >>

Store(t) ==
    /\ inflight[t].stage = "loaded"
    /\ LET ix     == inflight[t].ix
           loaded == inflight[t].loaded
       IN  \E o \in process(loaded, ix.accounts, ix.data) :
              LET written   == { k \in ProgramAccounts : o.data[k] # loaded[k] }
                  writable  == { ix.accounts[i].key :
                                   i \in { j \in DOMAIN ix.accounts : ix.accounts[j].is_writable } }
                  committed == o.res = Ok /\ written \subseteq writable
              IN  /\ data' = IF committed
                             THEN [k \in ProgramAccounts |->
                                     IF k \in written THEN o.data[k] ELSE data[k]]
                             ELSE data
                  /\ inflight' = [inflight EXCEPT ![t].stage =
                                    IF committed THEN "done" ELSE "failed"]
    /\ UNCHANGED << last, calls, created, ledger >>

NextConcurrent == \E t \in Transactions : Schedule(t) \/ Load(t) \/ Store(t)

ConcurrentSpec == ConcurrentInit /\ [][NextConcurrent]_vars

\* ------------------------------------------------------------------ histories
\* Sequences of up to MaxHistory instructions built by the builders, from
\* counters at zero, with or without the settings of Env::new.  The ledger
\* is kept from what was sent and whether it succeeded, never from the
\* buffers: a successful UpdSett puts its steps in force, a successful Inc
\* (Dec) adds (subtracts) the step in force, a successful Reset starts again
\* from zero, a failed invocation changes nothing.
HistoryInit ==
    /\ \E settings \in { << >>, EnvSettings } :
          /\ data = [k \in ProgramAccounts |->
                       CASE k = SettingsPda    -> settings
                         [] k = UserCounterPk  -> I64(0)
                         [] k = AdminCounterPk -> << >>]
          /\ ledger = [NoLedger EXCEPT !.steps = IF settings = << >>
                                                 THEN << Halves(U32(0)), Halves(U32(0)) >>
                                                 ELSE << Halves(U32(9)), Halves(U32(5)) >>]
    /\ last = NoCall
    /\ calls = 0
    /\ created = IF data[SettingsPda] = << >> THEN 0 ELSE 1
    /\ inflight = [t \in Transactions |-> Idle]

Tally(l, call) ==
    IF call.res # Ok THEN l
    ELSE CASE call.inst.tag = "Inc" ->
                [l EXCEPT !.value[call.accounts[2].key] =
                    << @[1] + l.steps[1][1], @[2] + l.steps[1][2] >>]
           [] call.inst.tag = "Dec" ->
                [l EXCEPT !.value[call.accounts[2].key] =
                    << @[1] - l.steps[2][1], @[2] - l.steps[2][2] >>]
           [] call.inst.tag = "Reset" ->
                [l EXCEPT !.value[call.accounts[2].key] = << 0, 0 >>]
           [] call.inst.tag = "UpdSett" ->
                [l EXCEPT !.steps = << Halves(call.inst.inc_step), Halves(call.inst.dec_step) >>]

Recorded(ix, x) ==
    /\ Run(ix.accounts, ix.data, x)
    /\ ledger' = Tally(ledger, last')
    /\ UNCHANGED inflight

HistoryOperation ==
    /\ calls < MaxHistory
    /\ \E user \in Callers :
          \/ Recorded(inc_instr(user), Inc)
          \/ Recorded(dec_instr(user), Dec)

HistoryReset ==
    /\ calls < MaxHistory
    /\ \E user \in Callers : Recorded(reset_instr(user), Reset)

\* the payloads of UpdSett, and one with steps that fill all four bytes
HistoryPayloads == UpdSettPayloads \cup { << AdminPk, U32(16909060), U32Max >> }

HistoryUpdSett ==
    /\ calls < MaxHistory
    /\ \E current_admin \in Callers, p \in HistoryPayloads :
          Recorded(upd_sett_instr(current_admin, p[1], p[2], p[3]), UpdSett(p[1], p[2], p[3]))

NextHistory == HistoryOperation \/ HistoryReset \/ HistoryUpdSett

HistorySpec == HistoryInit /\ [][NextHistory]_vars

TypeOK ==
    /\ DOMAIN data = ProgramAccounts
    /\ \A k \in ProgramAccounts : \A i \in 1..Len(data[k]) : data[k][i] \in Byte
    /\ calls \in 0..MaxCalls

\* ------------------------------------------------------------------ the latest invocation
Called == calls > 0

LastInst == instruction_try_from_slice(last.raw)

\* the latest invocation decoded to one of the given variants
IsOp(tags) == Called /\ LastInst.ok /\ LastInst.inst.tag \in tags

\* the account in the given slot of the latest invocation (slot 0 is first)
Slot(n) == last.accounts[n + 1]

HasSlots(n) == Len(last.accounts) >= n

\* Inc, Dec or Reset with every slot its handler reads
IsCounterCall ==
    \/ IsOp({ "Inc", "Dec" }) /\ HasSlots(3)
    \/ IsOp({ "Reset" }) /\ HasSlots(2)

IsUpdSettCall == IsOp({ "UpdSett" }) /\ HasSlots(4)

PreSettings == settings_try_from_slice(last.pre[SettingsPda])

PostSettings == settings_try_from_slice(data[SettingsPda])

\* the counter buffer of slot 1 before and after the latest invocation
PreCounter == DataOf(last.pre, Slot(1).key)

PostCounter == DataOf(data, Slot(1).key)

SettingsChanged ==
    ~(PostSettings.ok /\ PreSettings.ok /\ PostSettings.settings = PreSettings.settings)

\* ------------------------------------------------------------------ claims
\* C1: once the stored admin is non-zero, an invocation changes admin,
\* inc_step or dec_step only if it is an UpdSett whose admin-slot account
\* signed and has the address stored as admin just before the invocation.
C1_OnlyAdminChangesSettings ==
    (Called /\ PreSettings.ok /\ PreSettings.settings.admin # ZeroPk /\ SettingsChanged)
        => /\ IsOp({ "UpdSett" })
           /\ HasSlots(1)
           /\ Slot(0).is_signer
           /\ Slot(0).key = PreSettings.settings.admin

\* claimed settings were changed, by their admin
C1_Witness ==
    /\ Called /\ PreSettings.ok /\ PreSettings.settings.admin = AdminPk
    /\ PostSettings.ok /\ PostSettings.settings.admin = UserPk
    /\ Slot(0).key = AdminPk

\* C2: UpdSett on existing settings whose admin is non-zero and is not the
\* signing admin-slot account fails with AdminRequired and leaves the
\* settings buffer byte for byte as it was, whatever the payload.
C2_ForeignUpdSettRejected ==
    (/\ IsUpdSettCall
     /\ Slot(0).is_signer
     /\ Slot(1).key = SettingsPda
     /\ PreSettings.ok
     /\ PreSettings.settings.admin # ZeroPk
     /\ PreSettings.settings.admin # Slot(0).key)
        => /\ last.res = Custom(AdminRequired)
           /\ data[SettingsPda] = last.pre[SettingsPda]

\* a caller who signs, may be debited and passes the right accounts, but is
\* not the admin, was turned away
C2_Witness ==
    /\ IsUpdSettCall
    /\ Slot(0) = [key |-> UserPk, is_signer |-> TRUE, is_writable |-> TRUE]
    /\ Slot(1).key = SettingsPda
    /\ Slot(2).key = RentId
    /\ Slot(3).key = SystemProgramId
    /\ last.pre[SettingsPda] = EnvSettings
    /\ last.res = Custom(AdminRequired)

\* C3: a successful UpdSett stores exactly its payload; the first UpdSett,
\* on settings that do not exist, with payload admin = Z, 9, 5 leaves
\* { admin = Z, inc_step = 9, dec_step = 5 } also when Z is not the signer.
C3_UpdSettStoresPayload ==
    (IsOp({ "UpdSett" }) /\ last.res = Ok)
        => /\ PostSettings.ok
           /\ PostSettings.settings.admin = LastInst.inst.admin
           /\ PostSettings.settings.inc_step = LastInst.inst.inc_step
           /\ PostSettings.settings.dec_step = LastInst.inst.dec_step
           /\ (last.pre[SettingsPda] = << >> /\ last.raw = << 3 >> \o AdminPk \o << 9, 0, 0, 0, 5, 0, 0, 0 >>)
                 => data[SettingsPda] = AdminPk \o << 9, 0, 0, 0, 5, 0, 0, 0 >>

\* the first UpdSett, signed by the user, made AdminPk the admin
C3_Witness ==
    /\ IsOp({ "UpdSett" }) /\ last.res = Ok
    /\ last.pre[SettingsPda] = << >>
    /\ last.create.issued
    /\ Slot(0).key = UserPk
    /\ LastInst.inst.admin = AdminPk
    /\ LastInst.inst.inc_step = U32(9)

\* C4: Inc, Dec or Reset with a counter slot that is not CounterAddress of
\* the user in slot 0 fails with WrongCounterAddress and leaves the counter
\* buffer unchanged, whether the counter slot is writable or not.
C4_WrongCounterRejected ==
    (/\ IsCounterCall
     /\ Slot(0).is_signer
     /\ Slot(1).key # generate_counter_pk(Slot(0).key))
        => /\ last.res = Custom(WrongCounterPDA)
           /\ PostCounter = PreCounter

\* C5: Inc, Dec or Reset whose slot-0 account did not sign fails with
\* MissingSignature and leaves the counter buffer unchanged, whatever the
\* other accounts and flags.
C5_UnsignedRejected ==
    (IsCounterCall /\ ~Slot(0).is_signer)
        => /\ last.res = Err("MissingRequiredSignature")
           /\ PostCounter = PreCounter
           /\ data = last.pre

\* an unsigned Inc on the caller's own writable counter, settings in place
C5_Witness ==
    /\ IsOp({ "Inc" }) /\ HasSlots(3)
    /\ ~Slot(0).is_signer
    /\ Slot(1) = [key |-> generate_counter_pk(Slot(0).key), is_signer |-> FALSE, is_writable |-> TRUE]
    /\ Slot(2).key = SettingsPda
    /\ PreSettings.ok
    /\ last.res = Err("MissingRequiredSignature")

\* a + x = sum in 64-bit two's complement, stated byte by byte with the carries
AddsUp(a, x, sum) ==
    \E c \in [0..8 -> {0, 1}] :
        /\ c[0] = 0
        /\ \A i \in 1..8 : a[i] + x[i] + c[i - 1] = sum[i] + 256 * c[i]

\* an i64 of magnitude below 2^23, and its value
IsSmall(b) ==
    /\ Len(b) = 8
    /\ \/ b[3] < 128 /\ \A i \in 4..8 : b[i] = 0
       \/ b[3] >= 128 /\ \A i \in 4..8 : b[i] = 255

ToInt(b) == b[1] + 256 * b[2] + 65536 * b[3] - (IF b[8] = 255 THEN 16777216 ELSE 0)

\* a u32 below 2^16, and its value
IsSmallStep(u) == u[3] = 0 /\ u[4] = 0

StepInt(u) == u[1] + 256 * u[2]

\* C6: a successful Inc stores value + inc_step and a successful Dec stores
\* value - dec_step, with the settings stored at the time of the call (as
\* i64, the type of value); with steps 9 and 5, Inc takes 0 to 9, Dec then
\* takes 9 to 4, and Dec takes 0 to -5.
C6_IncDecArithmetic ==
    /\ (IsOp({ "Inc" }) /\ last.res = Ok) =>
          LET step == PreSettings.settings.inc_step
          IN  /\ AddsUp(PreCounter, step \o << 0, 0, 0, 0 >>, PostCounter)
              /\ (IsSmall(PreCounter) /\ IsSmallStep(step)) =>
                    ToInt(PostCounter) = ToInt(PreCounter) + StepInt(step)
              /\ (step = << 9, 0, 0, 0 >> /\ PreCounter = << 0, 0, 0, 0, 0, 0, 0, 0 >>) =>
                    PostCounter = << 9, 0, 0, 0, 0, 0, 0, 0 >>
    /\ (IsOp({ "Dec" }) /\ last.res = Ok) =>
          LET step == PreSettings.settings.dec_step
          IN  /\ AddsUp(PostCounter, step \o << 0, 0, 0, 0 >>, PreCounter)
              /\ (IsSmall(PreCounter) /\ IsSmallStep(step)) =>
                    ToInt(PostCounter) = ToInt(PreCounter) - StepInt(step)
              /\ (step = << 5, 0, 0, 0 >> /\ PreCounter = << 9, 0, 0, 0, 0, 0, 0, 0 >>) =>
                    PostCounter = << 4, 0, 0, 0, 0, 0, 0, 0 >>
              /\ (step = << 5, 0, 0, 0 >> /\ PreCounter = << 0, 0, 0, 0, 0, 0, 0, 0 >>) =>
                    PostCounter = << 251, 255, 255, 255, 255, 255, 255, 255 >>

\* Dec with step 5 on the 9 that an Inc with step 9 left
C6_Witness ==
    /\ IsOp({ "Dec" }) /\ last.res = Ok
    /\ PreSettings.settings.inc_step = U32(9)
    /\ PreSettings.settings.dec_step = U32(5)
    /\ PreCounter = I64(9)
    /\ ToInt(PostCounter) = 4

\* C7: a Reset that passes the checks sets value to 0 for every prior value,
\* with or without a settings account, with or without a third slot.
C7_ResetStoresZero ==
    (/\ IsOp({ "Reset" }) /\ HasSlots(2)
     /\ Slot(0).is_signer
     /\ (Slot(1).is_writable \/ Slot(1).key = generate_counter_pk(Slot(0).key))
     /\ Len(PreCounter) = 8)
        => /\ last.res = Ok
           /\ PostCounter = << 0, 0, 0, 0, 0, 0, 0, 0 >>

\* Reset with two accounts took a counter from i64::MAX - 3 to 0
C7_Witness ==
    /\ IsOp({ "Reset" }) /\ Len(last.accounts) = 2
    /\ PreCounter = NearMax
    /\ PostCounter = I64(0)
    /\ last.res = Ok

\* C8: Inc, Dec or UpdSett with a settings slot that is not SettingsAddress()
\* fails with WrongSettingsAddress, an error of its own, and changes no buffer.
C8_WrongSettingsRejected ==
    /\ (/\ IsOp({ "Inc", "Dec" }) /\ HasSlots(3)
        /\ Slot(0).is_signer
        /\ (Slot(1).is_writable \/ Slot(1).key = generate_counter_pk(Slot(0).key))
        /\ Slot(2).key # SettingsPda)
           => (last.res = Custom(WrongSettingsPDA) /\ data = last.pre)
    /\ (/\ IsUpdSettCall
        /\ Slot(0).is_signer /\ Slot(0).is_writable
        /\ Slot(1).key # SettingsPda)
           => (last.res = Custom(WrongSettingsPDA) /\ data = last.pre)

\* C9: UpdSett whose admin-slot account signed but is not writable fails with
\* AdminRequired, and one whose admin-slot account did not sign fails with
\* MissingSignature; neither creates an account or changes the settings.
C9_AdminSlotFlags ==
    /\ (IsUpdSettCall /\ Slot(0).is_signer /\ ~Slot(0).is_writable)
          => (last.res = Custom(AdminRequired) /\ ~last.create.issued /\ data = last.pre)
    /\ (IsUpdSettCall /\ ~Slot(0).is_signer)
          => (last.res = Err("MissingRequiredSignature") /\ ~last.create.issued /\ data = last.pre)

\* a signing, read-only admin slot on the call that would have created the
\* settings account
C9_Witness ==
    /\ IsUpdSettCall
    /\ Slot(0).is_signer /\ ~Slot(0).is_writable
    /\ Slot(1) = [key |-> SettingsPda, is_signer |-> FALSE, is_writable |-> TRUE]
    /\ Slot(2).key = RentId
    /\ Slot(3).key = SystemProgramId
    /\ last.pre[SettingsPda] = << >>
    /\ data[SettingsPda] = << >>
    /\ last.res = Custom(AdminRequired)

\* C10: an invocation that fails, for whatever reason, leaves every counter
\* buffer and the settings buffer as they were.
C10_NoPartialPersistence ==
    (Called /\ last.res # Ok) => data = last.pre

\* UpdSett asked the host for the settings account and was refused
C10_Witness ==
    /\ IsUpdSettCall
    /\ last.create.issued
    /\ last.res = Err("InvokeFailed")
    /\ data[SettingsPda] = << >>

\* instruction bytes C12 names: empty, a first byte outside 0..3, or variant
\* 3 with fewer than 40 bytes after it
TooShortOrUnknown(raw) ==
    \/ raw = << >>
    \/ raw # << >> /\ raw[1] \notin 0..3
    \/ raw # << >> /\ raw[1] = 3 /\ Len(raw) - 1 < 40

\* C12: an invocation whose instruction bytes are empty, start with a byte
\* outside 0..3, or are variant 3 with fewer than 40 payload bytes fails with
\* the decode error (ProgramError::BorshIoError) and changes no buffer.
C12_UndecodableRejected ==
    (Called /\ TooShortOrUnknown(last.raw))
        => (last.res = Err("BorshIoError") /\ ~last.create.issued /\ data = last.pre)

\* an UpdSett one payload byte short, sent with the account list of a valid
\* first UpdSett
C12_Witness ==
    /\ Called
    /\ Len(last.raw) = 40 /\ last.raw[1] = 3
    /\ last.accounts \in BuiltUpdSettLists
    /\ last.pre[SettingsPda] = << >>
    /\ last.res = Err("BorshIoError")
    /\ data = last.pre

\* the bytes of when_serialization_upd_sett_expect_ok
BinaryUpdSett ==
    << 3, 28, 212, 59, 165, 120, 246, 217, 222, 54, 146, 40, 15, 29,
       116, 181, 170, 127, 95, 104, 96, 111, 182, 220, 59, 176, 28, 79, 38, 63, 193, 241, 65,
       2, 0, 0, 0, 10, 0, 0, 0 >>

\* C13: decoding the encoding of an instruction gives the instruction back,
\* for Inc, Dec, Reset and UpdSett with any admin and steps; the encoding is
\* [0], [1], [2], or [3] followed by the 32 admin bytes, inc_step and
\* dec_step as little-endian u32 (41 bytes).
C13_RoundTrip ==
    (Called /\ last.inst # NoInst) =>
        /\ LastInst = [ok |-> TRUE, inst |-> last.inst]
        /\ last.inst.tag = "Inc"   => last.raw = << 0 >>
        /\ last.inst.tag = "Dec"   => last.raw = << 1 >>
        /\ last.inst.tag = "Reset" => last.raw = << 2 >>
        /\ last.inst.tag = "UpdSett" =>
              /\ Len(last.raw) = 41
              /\ last.raw[1] = 3
              /\ SubSeq(last.raw, 2, 33) = last.inst.admin
              /\ SubSeq(last.raw, 34, 37) = last.inst.inc_step
              /\ SubSeq(last.raw, 38, 41) = last.inst.dec_step
        /\ last.inst = UpdSett(AdminPk, << 2, 0, 0, 0 >>, << 10, 0, 0, 0 >>)
              => last.raw = BinaryUpdSett
        /\ last.inst.tag = "UpdSett" /\ last.inst.inc_step = U32(16909060)
              => SubSeq(last.raw, 34, 37) = << 4, 3, 2, 1 >>

\* UpdSett with the all-0xFF admin, inc_step 2^32 - 1 and dec_step 0 went
\* through the encoder and the decoder
C13_Witness ==
    /\ Called
    /\ last.inst = UpdSett(FFPk, << 255, 255, 255, 255 >>, << 0, 0, 0, 0 >>)
    /\ LastInst.ok
    /\ LastInst.inst = last.inst

\* the counter address of each caller, as published
CounterAddressOf(user) == IF user = UserPk THEN UserCounterPk ELSE AdminCounterPk

\* the failures of the checks on flags, addresses and list length
ValidationErrors ==
    { Err("NotEnoughAccountKeys"), Err("MissingRequiredSignature"), Err("InvalidArgument"),
      Custom(WrongCounterPDA), Custom(WrongSettingsPDA) }

\* C17: the instruction each builder assembles has the documented account
\* list and payload, and when its signer signs, the processor's checks on
\* flags and addresses accept it: inc_instr/dec_instr give [user: signer,
\* counter of user: writable, settings: read-only] with payload [0] / [1],
\* reset_instr gives [user: signer, counter of user: writable] with [2],
\* upd_sett_instr gives [current admin: signer and writable, settings:
\* writable, rent: read-only, system program: read-only] with the 41-byte
\* payload.  AdminRequired is returned only to a signer that is not the
\* stored, claimed admin.
C17_BuiltInstructionsAccepted ==
    Called =>
        /\ last.inst.tag \in { "Inc", "Dec" } =>
              /\ Len(last.accounts) = 3
              /\ Slot(0) = [key |-> Slot(0).key, is_signer |-> TRUE, is_writable |-> FALSE]
              /\ Slot(1) = [key |-> CounterAddressOf(Slot(0).key), is_signer |-> FALSE,
                            is_writable |-> TRUE]
              /\ Slot(2) = [key |-> SettingsPda, is_signer |-> FALSE, is_writable |-> FALSE]
              /\ last.raw = IF last.inst.tag = "Inc" THEN << 0 >> ELSE << 1 >>
        /\ last.inst.tag = "Reset" =>
              /\ Len(last.accounts) = 2
              /\ Slot(0) = [key |-> Slot(0).key, is_signer |-> TRUE, is_writable |-> FALSE]
              /\ Slot(1) = [key |-> CounterAddressOf(Slot(0).key), is_signer |-> FALSE,
                            is_writable |-> TRUE]
              /\ last.raw = << 2 >>
        /\ last.inst.tag = "UpdSett" =>
              /\ Len(last.accounts) = 4
              /\ Slot(0) = [key |-> Slot(0).key, is_signer |-> TRUE, is_writable |-> TRUE]
              /\ Slot(1) = [key |-> SettingsPda, is_signer |-> FALSE, is_writable |-> TRUE]
              /\ Slot(2) = [key |-> RentId, is_signer |-> FALSE, is_writable |-> FALSE]
              /\ Slot(3) = [key |-> SystemProgramId, is_signer |-> FALSE, is_writable |-> FALSE]
              /\ Len(last.raw) = 41 /\ last.raw[1] = 3
        /\ last.res \notin ValidationErrors
        /\ last.res = Custom(AdminRequired) =>
              /\ last.inst.tag = "UpdSett"
              /\ PreSettings.ok
              /\ PreSettings.settings.admin \notin { Slot(0).key, ZeroPk }

\* the instruction upd_sett_instr built for the admin created the settings
\* account and stored the payload
C17_Witness ==
    /\ Called
    /\ last.inst.tag = "UpdSett"
    /\ last.accounts = upd_sett_instr(AdminPk, AdminPk, U32(2), U32(10)).accounts
    /\ last.pre[SettingsPda] = << >>
    /\ last.create.granted
    /\ last.res = Ok
    /\ PostSettings.ok

\* Inc or Dec that got past the signer, counter and settings checks
OperationPastChecks ==
    /\ IsOp({ "Inc", "Dec" }) /\ HasSlots(3)
    /\ Slot(0).is_signer
    /\ Slot(1).is_writable \/ Slot(1).key = CounterAddressOf(Slot(0).key)
    /\ Slot(2).key = SettingsPda

\* Reset that got past the signer and counter checks
ResetPastChecks ==
    /\ IsOp({ "Reset" }) /\ HasSlots(2)
    /\ Slot(0).is_signer
    /\ Slot(1).is_writable \/ Slot(1).key = CounterAddressOf(Slot(0).key)

\* UpdSett that got past the signer, writable and settings-address checks
UpdSettPastChecks ==
    /\ IsUpdSettCall
    /\ Slot(0).is_signer /\ Slot(0).is_writable
    /\ Slot(1).key = SettingsPda

FailedDecodingState ==
    last.res = Err("BorshIoError") /\ ~last.create.issued /\ data = last.pre

\* C14: loading state from a buffer of the wrong width fails (the code's
\* error is ProgramError::BorshIoError) and changes nothing: Inc, Dec and
\* Reset when the counter buffer is not exactly 8 bytes, Inc, Dec and UpdSett
\* when the non-empty settings buffer is not exactly 40 bytes.  8 bytes are
\* read as a little-endian 64-bit value, 40 bytes as admin (32), inc_step
\* and dec_step (little-endian u32): on the byte vectors of the unit tests
\* (-777; admin [3; 32], steps 1 and 10) Inc stores -776 and Dec stores -787.
C14_WrongWidthRejected ==
    /\ (OperationPastChecks /\ Len(PreCounter) # 8) => FailedDecodingState
    /\ (ResetPastChecks /\ Len(PreCounter) # 8) => FailedDecodingState
    /\ (OperationPastChecks /\ Len(last.pre[SettingsPda]) \notin { 0, 40 }) => FailedDecodingState
    /\ (UpdSettPastChecks /\ Len(last.pre[SettingsPda]) \notin { 0, 40 }) => FailedDecodingState
    /\ (OperationPastChecks /\ last.pre[SettingsPda] = BinarySettings
            /\ PreCounter = BinaryCounter) =>
          /\ last.res = Ok
          /\ LastInst.inst.tag = "Inc" => PostCounter = << 248, 252, 255, 255, 255, 255, 255, 255 >>
          /\ LastInst.inst.tag = "Dec" => PostCounter = << 237, 252, 255, 255, 255, 255, 255, 255 >>

\* Inc built for the user, whose counter account holds nine bytes
C14_Witness ==
    /\ OperationPastChecks
    /\ last.accounts \in BuiltOperationLists
    /\ Len(last.pre[SettingsPda]) = 40
    /\ Len(PreCounter) = 9
    /\ last.res = Err("BorshIoError")
    /\ data = last.pre

\* the creation request of the latest invocation is the documented one
DocumentedRequest ==
    /\ last.create.to = SettingsPda
    /\ last.create.space = 40
    /\ last.create.lamports = 1169280
    /\ last.create.from = Slot(0).key
    /\ last.create.owner = ProgramId
    /\ last.create.seeds = << "settings", 255 >>

\* C15 as written: UpdSett issues the creation request exactly when it passed
\* the signer, writable and settings-address checks and the settings buffer
\* is empty.
C15_CreationIffChecksAndEmpty ==
    IsUpdSettCall =>
        (last.create.issued <=> (UpdSettPastChecks /\ last.pre[SettingsPda] = << >>))

\* C15, amended: UpdSett issues the creation request exactly when it passed
\* the signer, writable and settings-address checks, the settings buffer is
\* empty and the account in the rent slot is the rent sysvar (otherwise the
\* call fails with InvalidArgument before any request).  The request is for
\* the settings address, 40 bytes, the rent-exempt minimum of 40 bytes, paid
\* by the signing admin-slot account, owned by this program and signed with
\* the seed "settings" and the bump.  No other instruction issues a request,
\* and the host creates the settings account at most once.
C15_LazyCreation ==
    /\ IsUpdSettCall =>
          (last.create.issued <=>
              (UpdSettPastChecks /\ last.pre[SettingsPda] = << >> /\ Slot(2).key = RentId))
    /\ (IsUpdSettCall /\ UpdSettPastChecks /\ last.pre[SettingsPda] = << >>
            /\ Slot(2).key # RentId)
          => (last.res = Err("InvalidArgument") /\ data = last.pre)
    /\ (Called /\ last.create.issued) => (IsUpdSettCall /\ DocumentedRequest)
    /\ (Called /\ last.create.granted) => (last.create.issued /\ last.pre[SettingsPda] = << >>)
    /\ created <= 1

\* the first UpdSett: the request was issued as documented and granted
C15_Witness ==
    /\ IsUpdSettCall
    /\ UpdSettPastChecks
    /\ last.pre[SettingsPda] = << >>
    /\ last.create.issued /\ last.create.granted
    /\ DocumentedRequest
    /\ created = 1
    /\ Len(data[SettingsPda]) = 40

\* the addresses of the model and the next candidates of the derivation
KnownAddresses ==
    { ZeroPk, AdminPk, UserPk, UserCounterPk, AdminCounterPk, SettingsPda, RentId, ProgramId,
      SettingsCandidate254, SettingsCandidate253, SettingsCandidate252 }

\* C18: the settings address is the candidate of the highest bump whose
\* digest is off the curve, returned with that bump (the published address
\* with bump 255); an address passes the settings check exactly when it is
\* that address, in the function and in the handlers that call it.
C18_SettingsAddress ==
    /\ get_settings_pk_with_bump = << SettingsPda, SettingsBump >>
    /\ \E b \in TabulatedBumps :
          /\ ~is_on_curve(b)
          /\ \A higher \in TabulatedBumps : higher > b => is_on_curve(higher)
          /\ get_settings_pk_with_bump = << settings_digest(b), b >>
    /\ \A k \in KnownAddresses : check_settings_pk(k) <=> (k = SettingsPda)
    /\ (IsOp({ "Inc", "Dec" }) /\ HasSlots(3) /\ Slot(0).is_signer
            /\ (Slot(1).is_writable \/ Slot(1).key = CounterAddressOf(Slot(0).key)))
          => (last.res = Custom(WrongCounterPDA) <=> Slot(2).key # SettingsPda)
    /\ (IsUpdSettCall /\ Slot(0).is_signer /\ Slot(0).is_writable /\ Slot(1).key # SettingsPda)
          => last.res = Err("InvalidArgument")
    /\ (IsUpdSettCall /\ Slot(0).is_signer /\ Slot(0).is_writable /\ Slot(1).key = SettingsPda
            /\ Slot(2).key = RentId)
          => last.res # Err("InvalidArgument")

\* Inc with another account in the settings slot was turned away, and the
\* same list with the settings address would have passed
C18_Witness ==
    /\ IsOp({ "Inc" }) /\ HasSlots(3)
    /\ Slot(0) = [key |-> UserPk, is_signer |-> TRUE, is_writable |-> FALSE]
    /\ Slot(1) = [key |-> UserCounterPk, is_signer |-> FALSE, is_writable |-> TRUE]
    /\ Slot(2).key = RentId
    /\ ~check_settings_pk(Slot(2).key)
    /\ check_settings_pk(SettingsPda)
    /\ last.res = Custom(WrongCounterPDA)

\* C19: the counter at the counter address of a user changes only in an Inc,
\* Dec or Reset whose slot-0 signer is that user; another signer cannot
\* change it by passing it in slot 1.
C19_OnlyOwnerChangesCounter ==
    \A u \in Callers :
        (Called /\ data[CounterAddressOf(u)] # last.pre[CounterAddressOf(u)])
            => (IsCounterCall /\ Slot(0).is_signer /\ Slot(0).key = u)

CounterAddresses == { UserCounterPk, AdminCounterPk }

\* C20: Inc, Dec and Reset write at most the buffer of the account in slot 1
\* and leave the settings buffer as it was; UpdSett writes at most the
\* settings buffer and leaves every counter as it was; bytes that do not
\* decode change nothing; the only account the program ever asks the host to
\* create is the settings account, and no counter buffer changes its length.
C20_Frame ==
    /\ IsOp({ "Inc", "Dec", "Reset" }) =>
          /\ data[SettingsPda] = last.pre[SettingsPda]
          /\ \A k \in ProgramAccounts :
                data[k] # last.pre[k] => (HasSlots(2) /\ k = Slot(1).key)
    /\ IsOp({ "UpdSett" }) =>
          \A k \in CounterAddresses : data[k] = last.pre[k]
    /\ (Called /\ ~LastInst.ok) => data = last.pre
    /\ (Called /\ last.create.issued) =>
          (IsOp({ "UpdSett" }) /\ last.create.to = SettingsPda
              /\ last.create.to \notin CounterAddresses)
    /\ Called => \A k \in CounterAddresses : Len(data[k]) = Len(last.pre[k])

\* Inc changed the counter in slot 1, at the upper end of its range, while
\* the settings and the other counter address stay as they were
C20_Witness ==
    /\ IsOp({ "Inc" }) /\ HasSlots(3)
    /\ last.res = Ok
    /\ Slot(1).key = UserCounterPk
    /\ last.pre[UserCounterPk] = NearMax
    /\ PostCounter # PreCounter
    /\ data[AdminCounterPk] = last.pre[AdminCounterPk]
    /\ data[SettingsPda] = last.pre[SettingsPda]

\* the transactions that completed the given instruction on the given counter
Completed(counter_pk, x) ==
    { t \in Transactions :
        /\ inflight[t].stage = "done"
        /\ inflight[t].ix.accounts[2].key = counter_pk
        /\ inflight[t].ix.data = instruction_try_to_vec(x) }

\* C16: with the host reserving the accounts a transaction marks writable,
\* however Inc and Dec transactions are interleaved (steps 9 and 5, the
\* user's counter starting at 0), no transaction on the user's counter fails
\* and the counter holds 9 * (completed Inc) - 5 * (completed Dec): no update
\* is lost.  The transactions that fail are those on the admin's counter
\* address, which holds no account; none of them completes.
C16_NoLostUpdate ==
    /\ \A t \in Transactions :
          inflight[t].stage = "failed" => inflight[t].ix.accounts[2].key = AdminCounterPk
    /\ IsSmall(data[UserCounterPk])
    /\ ToInt(data[UserCounterPk]) =
          9 * Cardinality(Completed(UserCounterPk, Inc))
            - 5 * Cardinality(Completed(UserCounterPk, Dec))
    /\ data[AdminCounterPk] = << >>
    /\ Completed(AdminCounterPk, Inc) \cup Completed(AdminCounterPk, Dec) = { }

\* two Inc and one Dec have completed on the user's counter
C16_Witness ==
    /\ Cardinality(Completed(UserCounterPk, Inc)) = 2
    /\ Cardinality(Completed(UserCounterPk, Dec)) = 1
    /\ data[UserCounterPk] = I64(13)

\* the byte strings the encoder can produce: one byte 0, 1 or 2, or byte 3
\* followed by exactly 40 bytes
Canonical(raw) ==
    \/ raw \in { << 0 >>, << 1 >>, << 2 >> }
    \/ Len(raw) = 41 /\ raw[1] = 3

\* C27: the decoder accepts a byte string exactly when it is the encoding of
\* an instruction; then encoding the decoded instruction gives the bytes
\* back.  Any other byte string (a byte after [0], [1] or [2], an UpdSett of
\* more than 41 bytes) makes the invocation fail with the decode error and
\* change nothing.
C27_OnlyCanonicalDecodes ==
    Called =>
        /\ LastInst.ok <=> Canonical(last.raw)
        /\ LastInst.ok => instruction_try_to_vec(LastInst.inst) = last.raw
        /\ ~Canonical(last.raw) =>
              (last.res = Err("BorshIoError") /\ ~last.create.issued /\ data = last.pre)

\* [2, 0] sent with the accounts of a valid instruction of the user
C27_Witness ==
    /\ Called
    /\ last.raw = << 2, 0 >>
    /\ last.accounts \in BuiltOperationLists
    /\ ~LastInst.ok
    /\ last.res = Err("BorshIoError")
    /\ data = last.pre

\* C23: while the settings account has not been created (its buffer is
\* empty), every Inc and Dec fails and changes nothing -- past the checks
\* on signer and addresses, with the state decoding error -- whereas a
\* Reset of an 8-byte counter succeeds and stores zero.
C23_NoOperationBeforeSettings ==
    /\ (IsOp({ "Inc", "Dec" }) /\ last.pre[SettingsPda] = << >>)
          => (last.res # Ok /\ data = last.pre)
    /\ (OperationPastChecks /\ last.pre[SettingsPda] = << >>)
          => last.res = Err("BorshIoError")
    /\ (ResetPastChecks /\ last.pre[SettingsPda] = << >> /\ Len(PreCounter) = 8)
          => (last.res = Ok /\ PostCounter = ZeroBytes(8) /\ data[SettingsPda] = << >>)

\* the Inc that inc_instr builds for the user, before any UpdSett
C23_Witness ==
    /\ IsOp({ "Inc" })
    /\ last.accounts \in BuiltOperationLists
    /\ last.pre[SettingsPda] = << >>
    /\ created = 0
    /\ last.res = Err("BorshIoError")
    /\ data = last.pre

\* the instruction of the latest invocation, as the settings it asks to store
LastPayload ==
    [admin    |-> LastInst.inst.admin,
     inc_step |-> LastInst.inst.inc_step,
     dec_step |-> LastInst.inst.dec_step]

\* C21: a successful UpdSett stores the admin of its payload; from then on,
\* for as long as that admin B (non-zero) is the stored one, an UpdSett that
\* passes the checks on flags and address fails with AdminRequired and
\* changes nothing when signed by anyone else -- the previous admin included
\* -- and succeeds, storing its payload, when signed by B.
C21_AdminHandover ==
    /\ (IsUpdSettCall /\ last.res = Ok)
          => (PostSettings.ok /\ PostSettings.settings.admin = LastInst.inst.admin)
    /\ (UpdSettPastChecks /\ PreSettings.ok /\ PreSettings.settings.admin # ZeroPk) =>
          /\ Slot(0).key = PreSettings.settings.admin
                => (last.res = Ok /\ PostSettings.ok /\ PostSettings.settings = LastPayload)
          /\ Slot(0).key # PreSettings.settings.admin
                => (last.res = Custom(AdminRequired) /\ data = last.pre)

\* The settings of Env::new, admin AdminPk (the user's counter near its
\* maximum marks that initial state), were handed to UserPk by the first
\* invocation; in the second the previous admin is turned away.
C21_Witness ==
    /\ calls = 2
    /\ data[UserCounterPk] = NearMax
    /\ UpdSettPastChecks
    /\ PreSettings.ok /\ PreSettings.settings.admin = UserPk
    /\ Slot(0).key = AdminPk
    /\ last.res = Custom(AdminRequired)
    /\ data = last.pre

\* C22: a successful UpdSett with the all-zero admin in its payload stores
\* the zero admin, and while the stored admin is zero an UpdSett that passes
\* the checks on flags and address succeeds for any signer and stores its
\* payload: a claimed settings account can become unclaimed again.
C22_ClaimCanBeReleased ==
    /\ (IsUpdSettCall /\ last.res = Ok /\ LastInst.inst.admin = ZeroPk)
          => (PostSettings.ok /\ PostSettings.settings.admin = ZeroPk)
    /\ (UpdSettPastChecks /\ PreSettings.ok /\ PreSettings.settings.admin = ZeroPk)
          => (last.res = Ok /\ PostSettings.ok /\ PostSettings.settings = LastPayload)

\* The settings of Env::new, admin AdminPk, were released by the first
\* invocation; the second, signed by the user, installs the user as admin.
C22_Witness ==
    /\ calls = 2
    /\ data[UserCounterPk] = NearMax
    /\ UpdSettPastChecks
    /\ PreSettings.ok /\ PreSettings.settings.admin = ZeroPk
    /\ Slot(0).key = UserPk
    /\ last.res = Ok
    /\ PostSettings.ok /\ PostSettings.settings.admin = UserPk

\* C26: the counter buffer that was created is exactly 8 bytes, the counter
\* address that holds no account stays empty, and the settings buffer is
\* either empty or exactly 40 bytes that decode to a Settings record.  The
\* account the host creates for UpdSett has 40 bytes; all zero, it reads as
\* unclaimed, so the creating call then passes the admin check whoever
\* signed it and stores its payload.
C26_LayoutKept ==
    /\ Len(data[UserCounterPk]) = 8
    /\ Len(data[AdminCounterPk]) = 0
    /\ data[SettingsPda] = << >> \/ (Len(data[SettingsPda]) = 40 /\ PostSettings.ok)
    /\ settings_try_from_slice(ZeroBytes(40)) =
          [ok |-> TRUE,
           settings |-> [admin |-> ZeroPk, inc_step |-> << 0, 0, 0, 0 >>,
                         dec_step |-> << 0, 0, 0, 0 >>]]
    /\ (Called /\ last.create.granted) =>
          /\ last.pre[SettingsPda] = << >>
          /\ last.create.space = 40
          /\ last.res = Ok
          /\ PostSettings.ok /\ PostSettings.settings = LastPayload

\* the user's UpdSett created the settings account and installed another
\* address as admin
C26_Witness ==
    /\ IsUpdSettCall
    /\ last.pre[SettingsPda] = << >>
    /\ last.create.granted
    /\ Slot(0).key = UserPk
    /\ last.res = Ok
    /\ Len(data[SettingsPda]) = 40
    /\ PostSettings.ok /\ PostSettings.settings.admin = AdminPk

\* order of two 64-bit values held as little-endian bytes: as unsigned
\* numbers, and as two's-complement signed numbers
UnsignedLess(a, b) ==
    \E i \in 1..8 : a[i] < b[i] /\ \A j \in (i + 1)..8 : a[j] = b[j]

SignedLess(a, b) ==
    \/ IsNegative(a) /\ ~IsNegative(b)
    \/ IsNegative(a) = IsNegative(b) /\ UnsignedLess(a, b)

\* a successful Inc or Dec on decodable state
OperationDone(tag) ==
    /\ IsOp({ tag }) /\ HasSlots(3)
    /\ last.res = Ok
    /\ PreSettings.ok
    /\ Len(PreCounter) = 8

\* the steps are widened by zero extension: the stored value is the prior
\* value plus (minus) the step with four zero bytes above it, modulo 2^64
StepsZeroExtended ==
    /\ OperationDone("Inc") =>
          AddsUp(PreCounter, PreSettings.settings.inc_step \o << 0, 0, 0, 0 >>, PostCounter)
    /\ OperationDone("Dec") =>
          AddsUp(PostCounter, PreSettings.settings.dec_step \o << 0, 0, 0, 0 >>, PreCounter)

\* C25: the steps are widened from u32 to i64 without sign change, and a
\* successful Inc never stores a value below the prior value, a successful
\* Dec never one above it, also when the sum or difference leaves the range
\* of i64: no wrapped result is stored.
C25_StepsNeverWrap ==
    /\ StepsZeroExtended
    /\ OperationDone("Inc") => ~SignedLess(PostCounter, PreCounter)
    /\ OperationDone("Dec") => ~SignedLess(PreCounter, PostCounter)

\* the value the ledger holds for a counter, its low 16 bits carried into
\* the high part
LedgerValue(k) ==
    << ledger.value[k][1] % 65536, ledger.value[k][2] + (ledger.value[k][1] \div 65536) >>

\* an i64 of magnitude below 2^39 as its low 16 bits and the signed rest
IsMedium(b) ==
    /\ Len(b) = 8
    /\ \/ b[5] < 128 /\ \A i \in 6..8 : b[i] = 0
       \/ b[5] >= 128 /\ \A i \in 6..8 : b[i] = 255

StoredValue(b) ==
    << b[1] + 256 * b[2],
       b[3] + 256 * b[4] + 65536 * b[5] - (IF b[8] = 255 THEN 16777216 ELSE 0) >>

\* C24: after any sequence of Inc, Dec, Reset and UpdSett, on a counter that
\* starts at zero, the counter holds the sum of the inc_step in force at
\* each successful Inc since its last successful Reset minus the sum of the
\* dec_step in force at each successful Dec since then; failed invocations
\* add nothing.  A counter account that was never created stays empty.
C24_ValueIsSumOfSteps ==
    /\ IsMedium(data[UserCounterPk])
    /\ StoredValue(data[UserCounterPk]) = LedgerValue(UserCounterPk)
    /\ data[AdminCounterPk] = << >>
    /\ ledger.value[AdminCounterPk] = << 0, 0 >>

\* Inc at step 9, UpdSett to steps 16909060 and 2^32 - 1, Inc at the new
\* step, Dec at the new step: 9 + 16909060 - 4294967295 = -4278058226
C24_Witness ==
    /\ calls = 4
    /\ IsOp({ "Dec" }) /\ last.res = Ok
    /\ Slot(1).key = UserCounterPk
    /\ ledger.steps = << Halves(U32(16909060)), Halves(U32Max) >>
    /\ data[UserCounterPk] = << 14, 3, 2, 1, 255, 255, 255, 255 >>
    /\ StoredValue(data[UserCounterPk]) = LedgerValue(UserCounterPk)

====
